---- MODULE Spec2Model ----
(***************************************************************************)
(* The streaming signal engine of trader2: LiveDataCollector (minute bars   *)
(* folded into 5-minute candles), IndicatorCalculator (RSI, ATR, EMA,       *)
(* pivots), SignalDetector (pivot window, divergence, cooldown, confidence) *)
(* and the part of IntegratedLiveTrader.run / on_new_candle that drives     *)
(* them.                                                                    *)
(*                                                                          *)
(* Units.  Timestamps are minutes.  Prices are integers.  Volumes are       *)
(* integers counting 1e-7 units, so that round(volume, 6) is a real         *)
(* rounding.  Confidence is counted in thousandths (0.40 is 400).  An RSI   *)
(* is kept as the pair (gain, loss) of its window sums, RSI = 100 *         *)
(* gain / (gain + loss), and compared by cross-multiplication; it is NaN    *)
(* when loss = 0.  An ATR is kept as the sum of its ATR_PERIOD true ranges. *)
(* An EMA is kept in fixed point, EmaScale units per price unit.            *)
(* Series indices are the program's (0-based): At(s, i) is s.iloc[i].       *)
(***************************************************************************)
EXTENDS Integers, Sequences, FiniteSets, TLC

VARIABLES
    feed,             \* environment: which market the websocket stream plays
    stream_pc,        \* where start_collection is: "connecting" in its
                      \* sleep(2) after subscribing, then "connected"
    latest_bar_data,  \* LiveDataCollector.latest_bar_data
    current_candle,   \* LiveDataCollector.current_candle (NoCandle is None)
    candle_start,     \* LiveDataCollector.candle_start
    candles,          \* LiveDataCollector.candles
    folded,           \* history: the bars folded into the working candle
    trading_enabled,  \* IntegratedLiveTrader.trading_enabled
    recent_pivots,    \* SignalDetector.recent_pivots
    last_signal_time, \* SignalDetector.last_signal_time (None is NoneTime)
    signal,           \* what the latest detect_signal call returned
    log_signals_only, \* IntegratedLiveTrader.config['LOG_SIGNALS_ONLY']
    discord,          \* IntegratedLiveTrader.discord: "none" is None, else
                      \* a notifier that is "ready"
    open_position,    \* IntegratedLiveTrader.open_position (NoPosition is None)
    orders,           \* environment: the orders submit_order accepted
    handled,          \* history: what on_new_candle did with the latest
                      \* signal, and what the environment answered
    runs,             \* history: how often on_new_candle has run since the
                      \* latest candle was closed
    call              \* a direct call of one of the program's functions:
                      \* its arguments and, once made, what it returned

vars == <<feed, stream_pc, latest_bar_data, current_candle, candle_start, candles, folded,
          trading_enabled, recent_pivots, last_signal_time, signal,
          log_signals_only, discord, open_position, orders, handled, runs, call>>

collector == <<latest_bar_data, current_candle, candle_start, candles, folded>>
detector == <<recent_pivots, last_signal_time, signal>>
trader == <<log_signals_only, discord, open_position, orders, handled>>

----------------------------------------------------------------------------
(* Program constants *)

Interval == 5
BarsPerCandle == 5
MIN_CANDLES_REQUIRED == 30
MIN_CONFIDENCE == 400
RSI_PERIOD == 11
ATR_PERIOD == 14
EMA_FAST == 20
EMA_MID == 50
EMA_SLOW == 100
PIVOT_LOOKBACK == 3
MAX_LOOKBACK_BARS == 50
MinSeriesLen == 100
signal_cooldown_bars == 10
MinBarsBetween == 8
NoneTime == -1
RISK_PER_TRADE == 10     \* percent
STOP_MULTIPLIER == 15    \* tenths
TARGET_1_RR == 15        \* tenths
TARGET_2_RR == 25        \* tenths
TARGET_3_RR == 35        \* tenths
QtyUnits == 1000000      \* "round(qty, 6)": quantities per BTC
DRY_RUN == TRUE          \* config.py; printed by initialize, read nowhere else

(* Bounds of the model *)

MaxTime == 9        \* the free market stops after this minute
MaxSeries == 115    \* the scripted markets stop at this series length
MaxDup == 2         \* polls recorded per candidate pivot
EmaScale == 10000   \* fixed-point units of an EMA per price unit
MaxLong == 152      \* the long scripted market stops at this series length
MaxEarly == 50      \* the early scripted market stops at this series length
MaxFnLen == 5       \* candles of a series a pivot function is called on
MaxFnLookback == 2  \* the lookback a pivot function is called with

----------------------------------------------------------------------------
(* Helpers *)

Max(a, b) == IF a >= b THEN a ELSE b
Min(a, b) == IF a <= b THEN a ELSE b
Abs(a) == IF a >= 0 THEN a ELSE -a
At(s, i) == s[i + 1]

\* round(x, 6) on a volume counted in 1e-7 units: to the nearest multiple of
\* 10, a tie going to the even sixth decimal.
Round6Up(v) == ((v + 9) \div 10) * 10
Round6(v) ==
    LET q == v \div 10
        r == v % 10
    IN  IF r < 5 THEN q * 10
        ELSE IF r > 5 THEN (q + 1) * 10
        ELSE IF q % 2 = 0 THEN q * 10 ELSE (q + 1) * 10

\* no function is being called directly
NoCall == [fn |-> "none", done |-> FALSE]

NoBar == [timestamp |-> 0, open |-> 0, high |-> 0, low |-> 0, close |-> 0,
          volume |-> 0]
NoCandle == [timestamp |-> 0, open |-> 0, high |-> 0, low |-> 0, close |-> 0,
             volume |-> 0, bars_in_candle |-> 0]

----------------------------------------------------------------------------
(* LiveDataCollector.process_minute_bar *)

\* The working candle seeded from a bar (both places the code builds one).
SeedClose(bar) ==
    [timestamp |-> bar.timestamp, open |-> bar.close, high |-> bar.close,
     low |-> bar.close, close |-> bar.close, volume |-> bar.volume,
     bars_in_candle |-> 1]
SeedStale(bar) ==
    [timestamp |-> bar.timestamp, open |-> bar.open, high |-> bar.high,
     low |-> bar.low, close |-> bar.close, volume |-> bar.volume,
     bars_in_candle |-> 0]
NewCandle(bar) ==
    [timestamp |-> bar.timestamp, open |-> bar.open, high |-> bar.high,
     low |-> bar.low, close |-> bar.close, volume |-> bar.volume,
     bars_in_candle |-> 1]

\* The first bar: current_candle is None.
FirstCandle(bar) == NewCandle(bar)

\* "Update current candle"
Merge(cur, bar) ==
    [cur EXCEPT !.high = Max(cur.high, bar.high),
                !.low = Min(cur.low, bar.low),
                !.close = bar.close,
                !.volume = cur.volume + bar.volume,
                !.bars_in_candle = cur.bars_in_candle + 1]

\* "Check if 5 minutes have passed (5 minute bars)"
ClosesLate(cur, start, bar) ==
    \/ bar.timestamp - start > Interval
    \/ cur.bars_in_candle > BarsPerCandle
Closes(cur, start, bar) ==
    \/ bar.timestamp - start >= Interval
    \/ cur.bars_in_candle >= BarsPerCandle

candle_to_save(cur, start) ==
    [timestamp |-> start, open |-> cur.open, high |-> cur.high,
     low |-> cur.low, close |-> cur.close, volume |-> Round6(cur.volume)]

\* The list after "self.candles.append(candle_to_save)".
AppendInPlace(cs, c) ==
    IF cs = <<>> THEN <<c>> ELSE [cs EXCEPT ![Len(cs)] = c] \o <<c>>
AppendCandle(cs, c) == Append(cs, c)

\* The collector after one bar, as a record of its fields.
ProcessMinuteBar(st, bar) ==
    IF st.current_candle = NoCandle
    THEN [st EXCEPT !.latest_bar_data = bar,
                    !.current_candle = FirstCandle(bar),
                    !.candle_start = bar.timestamp,
                    !.folded = <<bar>>]
    ELSE LET cur == Merge(st.current_candle, bar)
         IN  IF Closes(cur, st.candle_start, bar)
             THEN [st EXCEPT !.latest_bar_data = bar,
                             !.candles = AppendCandle(st.candles,
                                            candle_to_save(cur, st.candle_start)),
                             !.current_candle = NewCandle(bar),
                             !.candle_start = bar.timestamp,
                             !.folded = <<bar>>]
             ELSE [st EXCEPT !.latest_bar_data = bar,
                             !.current_candle = cur,
                             !.folded = Append(st.folded, bar)]

EmptyCollector ==
    [latest_bar_data |-> NoBar, current_candle |-> NoCandle, candle_start |-> 0,
     candles |-> <<>>, folded |-> <<>>]

CollectorState ==
    [latest_bar_data |-> latest_bar_data, current_candle |-> current_candle,
     candle_start |-> candle_start, candles |-> candles, folded |-> folded]

----------------------------------------------------------------------------
(* IndicatorCalculator *)

\* delta = close_prices.diff(): NaN at index 0, which where(.., 0) turns to 0.
Delta(cs, j) == IF j = 0 THEN 0 ELSE At(cs, j).close - At(cs, j - 1).close
Gain(cs, j) == IF Delta(cs, j) > 0 THEN Delta(cs, j) ELSE 0
Loss(cs, j) == IF Delta(cs, j) < 0 THEN -Delta(cs, j) ELSE 0

RECURSIVE SumGain(_, _, _)
\* the window sums: of Gain, of Loss and of TrueRange over lo..hi
SumGain(cs, lo, hi) ==
    IF lo > hi THEN 0 ELSE Gain(cs, hi) + SumGain(cs, lo, hi - 1)
RECURSIVE SumLoss(_, _, _)
SumLoss(cs, lo, hi) ==
    IF lo > hi THEN 0 ELSE Loss(cs, hi) + SumLoss(cs, lo, hi - 1)

\* calculate_rsi at index i, as its window sums.  rolling(period) is NaN before
\* period values are in the window; loss.replace(0, nan) makes the RSI NaN when
\* no step of the window lost.
NaNRsi == [gain |-> 0, loss |-> 0]
calculate_rsi(cs, i, period) ==
    IF i < period - 1 THEN NaNRsi
    ELSE [gain |-> SumGain(cs, i - period + 1, i),
          loss |-> SumLoss(cs, i - period + 1, i)]

\* (first: were the zero loss not replaced, 0 / 0 alone would be NaN)
IsNaNFlatOnly(r) == r.gain = 0 /\ r.loss = 0
IsNaN(r) == r.loss = 0
\* r < t and r > t for a number t; any comparison with NaN is false
RsiBelow(r, t) == ~IsNaN(r) /\ 100 * r.gain < t * (r.gain + r.loss)
RsiAbove(r, t) == ~IsNaN(r) /\ 100 * r.gain > t * (r.gain + r.loss)
\* a > b for two RSIs
RsiGreater(a, b) ==
    /\ ~IsNaN(a)
    /\ ~IsNaN(b)
    /\ a.gain * (b.gain + b.loss) > b.gain * (a.gain + a.loss)

\* calculate_atr: the true range of index j (the shifted close is NaN at 0 and
\* max(axis=1) skips it), and the window sum; defined from index period - 1.
TrueRange(cs, j) ==
    LET c == At(cs, j)
    IN  IF j = 0 THEN c.high - c.low
        ELSE LET pc == At(cs, j - 1).close
             IN  Max(c.high - c.low, Max(Abs(c.high - pc), Abs(c.low - pc)))
RECURSIVE SumTrueRange(_, _, _)
SumTrueRange(cs, lo, hi) ==
    IF lo > hi THEN 0 ELSE TrueRange(cs, hi) + SumTrueRange(cs, lo, hi - 1)
AtrDefined(i, period) == i >= period - 1
calculate_atr(cs, i, period) ==
    IF AtrDefined(i, period) THEN SumTrueRange(cs, i - period + 1, i) ELSE 0

\* calculate_ema: ewm(span, adjust=False), alpha = 2 / (span + 1), y[0] = x[0],
\* y[t] = (1 - alpha) y[t-1] + alpha x[t]; in fixed point.
EmaStep(y, x, span) == (2 * x * EmaScale + (span - 1) * y) \div (span + 1)

RECURSIVE EmaOver(_, _, _, _, _)
\* y carried through the steps lo..hi, in that order.  The range is halved
\* rather than walked, and the first half's value is computed ("half = half")
\* before the second half starts, only to keep TLC's evaluation shallow.
EmaOver(cs, y, lo, hi, span) ==
    IF lo > hi THEN y
    ELSE IF lo = hi THEN EmaStep(y, At(cs, lo).close, span)
    ELSE LET mid == (lo + hi) \div 2
             half == EmaOver(cs, y, lo, mid, span)
         IN  IF half = half THEN EmaOver(cs, half, mid + 1, hi, span) ELSE y

calculate_ema(cs, i, span) == EmaOver(cs, At(cs, 0).close * EmaScale, 1, i, span)

\* find_pivot_high / find_pivot_low over the candles' highs and lows
\* (first: the neighbours there are, where the window runs off the series;
\* then: a neighbour as high does not disqualify)
PivotHighClipped(cs, index, lookback) ==
    IF index < 0 \/ index >= Len(cs) THEN FALSE
    ELSE \A i \in Max(index - lookback, 0)..Min(index + lookback, Len(cs) - 1) :
            i # index => ~(At(cs, i).high >= At(cs, index).high)
PivotHighTies(cs, index, lookback) ==
    IF index < lookback \/ index >= Len(cs) - lookback THEN FALSE
    ELSE \A i \in (index - lookback)..(index + lookback) :
            i # index => ~(At(cs, i).high > At(cs, index).high)
find_pivot_high(cs, index, lookback) ==
    IF index < lookback \/ index >= Len(cs) - lookback THEN FALSE
    ELSE \A i \in (index - lookback)..(index + lookback) :
            i # index => ~(At(cs, i).high >= At(cs, index).high)
find_pivot_low(cs, index, lookback) ==
    IF index < lookback \/ index >= Len(cs) - lookback THEN FALSE
    ELSE \A i \in (index - lookback)..(index + lookback) :
            i # index => ~(At(cs, i).low <= At(cs, index).low)

\* The row of the augmented dataframe that detect_signal reads
\* (on_new_candle's indicator columns at one index).
Row(cs, i) ==
    [rsi |-> calculate_rsi(cs, i, RSI_PERIOD),
     close |-> At(cs, i).close,
     ema20 |-> calculate_ema(cs, i, EMA_FAST),
     ema50 |-> calculate_ema(cs, i, EMA_MID),
     ema100 |-> calculate_ema(cs, i, EMA_SLOW),
     atr_defined |-> AtrDefined(i, ATR_PERIOD),
     atr |-> calculate_atr(cs, i, ATR_PERIOD)]

----------------------------------------------------------------------------
(* SignalDetector.calculate_confidence, in thousandths *)

\* With atr the sum of ATR_PERIOD true ranges and e20 in fixed point,
\* distance = |close - ema20| / atr  >  n / d   iff
\* |close * EmaScale - e20| * ATR_PERIOD * d  >  n * atr * EmaScale.
DistNum(row) == Abs(row.close * EmaScale - row.ema20) * ATR_PERIOD
\* (under a negative atr the distance is negative or zero)
DistAbove(row, n, d) ==
    row.atr > 0 /\ DistNum(row) * d > n * row.atr * EmaScale
DistBelow(row, n, d) ==
    row.atr > 0 => DistNum(row) * d < n * row.atr * EmaScale

\* "if pd.isna(rsi) or pd.isna(atr) or atr == 0"
DegenerateNaNOnly(row) == IsNaN(row.rsi) \/ ~row.atr_defined
Degenerate(row) == IsNaN(row.rsi) \/ ~row.atr_defined \/ row.atr = 0

\* 0.25 * (1 - tcs), tcs = 0.4 in a trend (first: were tcs 4.0)
TcsTermTypo(trend) == IF trend THEN -750 ELSE 250
TcsTerm(trend) == IF trend THEN 150 ELSE 250

calculate_confidence(row, is_bullish) ==
    IF Degenerate(row) THEN 0
    ELSE
    LET rsi == row.rsi
        trend == \/ (row.ema20 > row.ema50 /\ row.ema50 > row.ema100)
                 \/ (row.ema20 < row.ema50 /\ row.ema50 < row.ema100)
        tcs_term == TcsTerm(trend)
        \* 0.30 * exhaustion
        ex_rsi == IF RsiAbove(rsi, 75) \/ RsiBelow(rsi, 25) THEN 120
                  ELSE IF RsiAbove(rsi, 70) \/ RsiBelow(rsi, 30) THEN 75
                  ELSE 0
        ex_dist == IF DistAbove(row, 5, 2) THEN 90
                   ELSE IF DistAbove(row, 3, 2) THEN 60
                   ELSE 0
        bonus == IF is_bullish /\ RsiBelow(rsi, 30) THEN 250
                 ELSE IF is_bullish /\ RsiBelow(rsi, 35) THEN 200
                 ELSE IF ~is_bullish /\ RsiAbove(rsi, 70) THEN 250
                 ELSE IF ~is_bullish /\ RsiAbove(rsi, 65) THEN 200
                 ELSE 0
        pullback == IF DistAbove(row, 3, 10) /\ DistBelow(row, 2, 1) THEN 100 ELSE 0
        \* dma = (ema20 - ema50) / atr
        dma_neg == \/ row.ema20 < row.ema50 /\ row.atr > 0
                   \/ row.ema20 > row.ema50 /\ row.atr < 0
        dma_pos == \/ row.ema20 > row.ema50 /\ row.atr > 0
                   \/ row.ema20 < row.ema50 /\ row.atr < 0
        dma == IF is_bullish /\ dma_neg THEN 100
               ELSE IF ~is_bullish /\ dma_pos THEN 100
               ELSE 0
    IN  Min(tcs_term + ex_rsi + ex_dist + bonus + pullback + dma, 1000)

----------------------------------------------------------------------------
(* SignalDetector.detect_signal *)

NoSignal == [type |-> "NONE", time |-> 0, price |-> 0, rsi |-> NaNRsi,
             confidence |-> 0, atr |-> 0, bars_between |-> 0]

\* "if self.last_signal_time:" and the cooldown test under it
InCooldownFlipped(n, last) ==
    /\ last # NoneTime /\ last # 0
    /\ n - last > signal_cooldown_bars
InCooldown(n, last) ==
    /\ last # NoneTime /\ last # 0
    /\ n - last < signal_cooldown_bars

\* "Store pivot"
PivotTypeLowFirst(is_pivot_high, is_pivot_low) ==
    IF is_pivot_low THEN "low" ELSE "high"
PivotType(is_pivot_high, is_pivot_low) ==
    IF is_pivot_high THEN "high" ELSE "low"

NewPivot(cs, check_index, is_pivot_high, is_pivot_low) ==
    LET type == PivotType(is_pivot_high, is_pivot_low)
    IN  [index |-> check_index,
         type |-> type,
         price |-> IF type = "high" THEN At(cs, check_index).high
                   ELSE At(cs, check_index).low,
         rsi |-> calculate_rsi(cs, check_index, RSI_PERIOD),
         time |-> At(cs, check_index).timestamp]

\* "Keep only recent pivots"
KeepAll(pivots, check_index) == pivots
KeepRecent(pivots, check_index) ==
    LET Recent(p) == check_index - p.index <= MAX_LOOKBACK_BARS
    IN  SelectSeq(pivots, Recent)

\* The two pattern tests of the loop body
BullishPattern(pivot, prev) ==
    /\ pivot.type = "low"
    /\ pivot.price < prev.price
    /\ RsiGreater(pivot.rsi, prev.rsi)
    /\ RsiBelow(pivot.rsi, 40)
BearishPattern(pivot, prev) ==
    /\ pivot.type = "high"
    /\ pivot.price > prev.price
    /\ RsiGreater(prev.rsi, pivot.rsi)
    /\ RsiAbove(pivot.rsi, 60)

\* "if confidence >= self.config['MIN_CONFIDENCE']"
AcceptsAny(confidence) == TRUE
Accepts(confidence) == confidence >= MIN_CONFIDENCE

MakeSignal(type, pivot, confidence, row, bars_between) ==
    [type |-> type, time |-> pivot.time, price |-> pivot.price,
     rsi |-> pivot.rsi, confidence |-> confidence, atr |-> row.atr,
     bars_between |-> bars_between]

\* One iteration of "for prev_pivot in reversed(self.recent_pivots[:-1])"
\* on pivots[k]: a Signal when the iteration returns one, NoSignal when it
\* falls through to the next iteration.
LoopBody(prev, pivot, row) ==
    LET bars_between == pivot.index - prev.index
    IN  IF prev.type # pivot.type THEN NoSignal
        ELSE IF bars_between < MinBarsBetween THEN NoSignal
        ELSE IF BullishPattern(pivot, prev)
        THEN LET confidence == calculate_confidence(row, TRUE)
             IN  IF Accepts(confidence)
                 THEN MakeSignal("BULLISH", pivot, confidence, row, bars_between)
                 ELSE NoSignal
        ELSE IF BearishPattern(pivot, prev)
        THEN LET confidence == calculate_confidence(row, FALSE)
             IN  IF Accepts(confidence)
                 THEN MakeSignal("BEARISH", pivot, confidence, row, bars_between)
                 ELSE NoSignal
        ELSE NoSignal

\* prev is a pivot the loop does not skip: same type, far enough back
Qualifies(prev, pivot) ==
    /\ prev.type = pivot.type
    /\ pivot.index - prev.index >= MinBarsBetween

RECURSIVE ScanNearestOnly(_, _, _, _)
\* (the loop, were it to stop at the first pivot it does not skip)
ScanNearestOnly(pivots, k, pivot, row) ==
    IF k = 0 THEN NoSignal
    ELSE IF Qualifies(pivots[k], pivot) THEN LoopBody(pivots[k], pivot, row)
    ELSE ScanNearestOnly(pivots, k - 1, pivot, row)

RECURSIVE Scan(_, _, _, _)
\* The loop from pivots[k] down to pivots[1]: the first Signal an iteration
\* returns, NoSignal ("return None") when none does.
Scan(pivots, k, pivot, row) ==
    IF k = 0 THEN NoSignal
    ELSE LET got == LoopBody(pivots[k], pivot, row)
         IN  IF got # NoSignal THEN got
             ELSE Scan(pivots, k - 1, pivot, row)

\* "self.last_signal_time = check_index", where a Signal is returned
StoreSignalTimeAlways(got, check_index, last) == check_index
StoreSignalTime(got, check_index, last) ==
    IF got # NoSignal THEN check_index ELSE last

\* detect_signal(df) on the detector (pivots, last): the detector after the
\* call and the value returned.
detect_signal(cs, pivots, last) ==
    LET same == [recent_pivots |-> pivots, last_signal_time |-> last,
                 signal |-> NoSignal]
        lookback == PIVOT_LOOKBACK
        check_index == Len(cs) - lookback - 1
    IN  IF Len(cs) < MinSeriesLen THEN same
        ELSE IF InCooldown(Len(cs), last) THEN same
        ELSE IF check_index < lookback THEN same
        ELSE
        LET is_pivot_high == find_pivot_high(cs, check_index, lookback)
            is_pivot_low == find_pivot_low(cs, check_index, lookback)
        IN  IF ~is_pivot_high /\ ~is_pivot_low THEN same
            ELSE
            LET pivot == NewPivot(cs, check_index, is_pivot_high, is_pivot_low)
                kept == KeepRecent(Append(pivots, pivot), check_index)
                got == Scan(kept, Len(kept) - 1, pivot, Row(cs, check_index))
            IN  [recent_pivots |-> kept,
                 last_signal_time |-> StoreSignalTime(got, check_index, last),
                 signal |-> got]

----------------------------------------------------------------------------
(* IntegratedLiveTrader.calculate_order_details *)

\* The levels of an order plan are in units of 1 / PriceScale of a price unit:
\* ATR is a sum of ATR_PERIOD true ranges, the multipliers are tenths.
PriceScale == ATR_PERIOD * 100

NoPlan == [side |-> "NONE", qty |-> 0, entry |-> 0, stop |-> 0, target_1 |-> 0,
           target_2 |-> 0, target_3 |-> 0, stop_distance |-> 0,
           risk_dollars |-> [num |-> 0, den |-> 1],
           account_balance |-> 0, atr |-> 0, is_bullish |-> FALSE]

RECURSIVE Gcd(_, _)
Gcd(a, b) == IF b = 0 THEN a ELSE Gcd(b, a % b)

\* "Calculate levels"
LevelsBuyOnly(is_bullish, entry, atr) ==
    [side |-> IF is_bullish THEN "BUY" ELSE "SELL",
     stop |-> entry - atr * STOP_MULTIPLIER * 10,
     target_1 |-> entry + atr * STOP_MULTIPLIER * TARGET_1_RR,
     target_2 |-> entry + atr * STOP_MULTIPLIER * TARGET_2_RR,
     target_3 |-> entry + atr * STOP_MULTIPLIER * TARGET_3_RR]
Levels(is_bullish, entry, atr) ==
    IF is_bullish
    THEN [side |-> "BUY",
          stop |-> entry - atr * STOP_MULTIPLIER * 10,
          target_1 |-> entry + atr * STOP_MULTIPLIER * TARGET_1_RR,
          target_2 |-> entry + atr * STOP_MULTIPLIER * TARGET_2_RR,
          target_3 |-> entry + atr * STOP_MULTIPLIER * TARGET_3_RR]
    ELSE [side |-> "SELL",
          stop |-> entry + atr * STOP_MULTIPLIER * 10,
          target_1 |-> entry - atr * STOP_MULTIPLIER * TARGET_1_RR,
          target_2 |-> entry - atr * STOP_MULTIPLIER * TARGET_2_RR,
          target_3 |-> entry - atr * STOP_MULTIPLIER * TARGET_3_RR]

\* (risk_amount / stop_distance) / entry in BTC, as a fraction in lower terms:
\* risk_amount is account_balance * RISK_PER_TRADE / 100 and stop_distance is
\* in units of 1 / PriceScale, which leaves
\* account_balance * RISK_PER_TRADE * ATR_PERIOD over stop_distance * price.
QtyExact(account_balance, stop_distance, price) ==
    LET p0 == account_balance * RISK_PER_TRADE * ATR_PERIOD
        g1 == Gcd(p0, stop_distance)
        p1 == p0 \div g1
        g2 == Gcd(p1, price)
    IN  [num |-> p1 \div g2, den |-> (stop_distance \div g1) * (price \div g2)]

\* The digits of num / den: the whole part and n more decimal digits
RECURSIVE Digits(_, _, _, _)
Digits(quot, rem, den, n) ==
    IF n = 0 THEN [quot |-> quot, rem |-> rem]
    ELSE Digits(quot * 10 + (rem * 10) \div den, (rem * 10) % den, den, n - 1)

\* "qty = round(qty, 6)", in units of 1 / QtyUnits (round goes to the even
\* neighbour when the value is half-way)
RoundQtyDown(num, den) == Digits(num \div den, num % den, den, 6).quot
RoundQty(num, den) ==
    LET d == Digits(num \div den, num % den, den, 6)
    IN  IF 2 * d.rem > den \/ (2 * d.rem = den /\ d.quot % 2 = 1)
        THEN d.quot + 1
        ELSE d.quot

\* "risk_dollars = qty * stop_distance", in dollars, as a fraction
RiskDollars(qty, stop_distance) ==
    LET g == Gcd(stop_distance, QtyUnits * PriceScale)
    IN  [num |-> qty * (stop_distance \div g), den |-> (QtyUnits * PriceScale) \div g]

\* "if qty <= 0"
InvalidSizeNegative(qty) == qty < 0
InvalidSize(qty) == qty <= 0

\* calculate_order_details(signal, current_price); account is what
\* get_account answers (not ok: it raises), prices are positive.
calculate_order_details(sig, current_price, account) ==
    IF ~account.ok THEN NoPlan
    ELSE
    LET is_bullish == sig.type = "BULLISH"
        atr == sig.atr
        account_balance == account.equity
        entry == current_price * PriceScale
        levels == Levels(is_bullish, entry, atr)
        stop_distance == Abs(entry - levels.stop)
        exact == QtyExact(account_balance, stop_distance, current_price)
        qty == IF stop_distance > 0 THEN RoundQty(exact.num, exact.den) ELSE 0
    IN  IF InvalidSize(qty) THEN NoPlan
        ELSE [side |-> levels.side, qty |-> qty, entry |-> entry,
              stop |-> levels.stop, target_1 |-> levels.target_1,
              target_2 |-> levels.target_2, target_3 |-> levels.target_3,
              stop_distance |-> stop_distance,
              risk_dollars |-> RiskDollars(qty, stop_distance),
              account_balance |-> account_balance, atr |-> atr,
              is_bullish |-> is_bullish]

----------------------------------------------------------------------------
(* IntegratedLiveTrader.on_new_candle after detect_signal, execute_trade *)

NoPosition == [qty |-> 0, side |-> FALSE, entry |-> 0, stop |-> 0,
               target_1 |-> 0, target_2 |-> 0, target_3 |-> 0]

\* What the environment answers while one signal is handled: get_account in
\* calculate_order_details, the notification ("failed": get_account or
\* channel.send raises), submit_order (not ok: it raises).
NoEnv == [account |-> [ok |-> FALSE, equity |-> 0], send |-> "sent", submit |-> FALSE]
NotHandled == [env |-> NoEnv, order_details |-> NoPlan, notification |-> "none",
               trade |-> "none"]

\* "if self.discord:" and DiscordNotifier.send_signal, which returns at once
\* unless the notifier is ready
send_signal(notifier, outcome) ==
    IF notifier = "ready" THEN outcome ELSE "none"

\* "except: pass" around the notification: on_new_candle goes on to the trade
\* whatever became of it
GoesOnIfSent(notification) == notification # "failed"
GoesOn(notification) == TRUE

\* execute_trade(signal, order_details): the position, the orders accepted
\* and what became of the trade
execute_trade(position, accepted, order_details, submit) ==
    IF position # NoPosition
    THEN [open_position |-> position, orders |-> accepted, trade |-> "skipped"]
    ELSE IF ~submit
    THEN [open_position |-> position, orders |-> accepted, trade |-> "failed"]
    ELSE [open_position |->
              [qty |-> order_details.qty, side |-> order_details.is_bullish,
               entry |-> order_details.entry, stop |-> order_details.stop,
               target_1 |-> order_details.target_1,
               target_2 |-> order_details.target_2,
               target_3 |-> order_details.target_3],
          orders |-> Append(accepted, [qty |-> order_details.qty,
                                       side |-> order_details.side]),
          trade |-> "submitted"]

\* on_new_candle from "if signal:" on
OnSignal(sig, current_price, position, accepted, log_only, notifier, env) ==
    IF sig = NoSignal
    THEN [open_position |-> position, orders |-> accepted, handled |-> NotHandled]
    ELSE
    LET order_details == calculate_order_details(sig, current_price, env.account)
    IN  IF order_details = NoPlan
        THEN [open_position |-> position, orders |-> accepted,
              handled |-> [NotHandled EXCEPT !.env = env]]
        ELSE
        LET notification == send_signal(notifier, env.send)
            traded == IF GoesOn(notification) /\ ~log_only
                      THEN execute_trade(position, accepted, order_details, env.submit)
                      ELSE [open_position |-> position, orders |-> accepted,
                            trade |-> "none"]
        IN  [open_position |-> traded.open_position, orders |-> traded.orders,
             handled |-> [env |-> env, order_details |-> order_details,
                          notification |-> notification, trade |-> traded.trade]]

----------------------------------------------------------------------------
(* The environment: the minute bars the websocket stream delivers *)

\* The free market: any of a few bar shapes, any of a few gaps (minutes) after
\* the previous bar, up to minute MaxTime.  Timestamps do not decrease: the
\* bigger bar may carry the minute of a smaller one before it.
FreeShapes ==
    { [open |-> 2, high |-> 3, low |-> 1, close |-> 1, volume |-> 4],
      [open |-> 3, high |-> 4, low |-> 2, close |-> 4, volume |-> 11] }
FreeGaps == {0, 1, 2, 5}
FreeBars(latest) ==
    { [timestamp |-> latest.timestamp + gs[1], open |-> gs[2].open,
       high |-> gs[2].high, low |-> gs[2].low, close |-> gs[2].close,
       volume |-> gs[2].volume] :
         gs \in { x \in FreeGaps \X FreeShapes :
                    /\ latest.timestamp + x[1] <= MaxTime
                    /\ x[1] = 0 => latest.volume < x[2].volume } }

\* The scripted market "down": a bar at minute 5k, flat at the boundary price of
\* candle k, and one at minute 5k + 1, which carries the candle's extremes.  The
\* boundary prices stay at 100 up to candle 86 and then drift down; some bars
\* have alternatives.  "up" is the same market mirrored at 100.
UpSteps == {91, 97, 101, 107, 112}
DownSteps == {87, 89, 93, 95, 98, 99, 102, 103, 105, 108, 109, 111, 113}
Boundary(k) ==
    100 + Cardinality({j \in UpSteps : j < k}) - Cardinality({j \in DownSteps : j < k})

\* the alternatives of the boundary price of candle k
Boundaries(k) == IF k = 105 THEN {Boundary(k), Boundary(k) + 1} ELSE {Boundary(k)}

\* the alternatives of the (low, high) reached inside candle k, opening at b
Extremes(k, b) ==
    CASE k = 96 -> { <<90, b>> }
      [] k = 100 -> { <<b, b>>, <<84, b>> }
      [] k = 104 -> { <<b, b>>, <<88, b>>, <<88, b + 5>> }
      [] k = 110 -> { <<b, b>>, <<86, b>> }
      [] OTHER -> { <<b, b>> }

DownBars(latest) ==
    LET t == IF latest.timestamp % 5 = 0 THEN latest.timestamp + 1
             ELSE latest.timestamp + 4
        k == t \div 5
    IN  IF t % 5 = 0
        THEN { [timestamp |-> t, open |-> b, high |-> b, low |-> b, close |-> b,
                volume |-> 10] : b \in Boundaries(k) }
        ELSE { [timestamp |-> t, open |-> latest.close, high |-> e[2],
                low |-> e[1], close |-> latest.close, volume |-> 10] :
                  e \in Extremes(k, latest.close) }

\* The scripted market "long": the same two bars per candle, the boundary
\* prices rising from candle 88 on with a single step down before candle 120,
\* and a spike up inside candles 96, 104, 120, 128 and 132 and down inside
\* candle 148.
LongUpSteps == {88, 90, 92, 94, 97, 99, 101, 102, 103, 110, 113, 116, 121, 123, 126}
LongDownSteps == {98, 124, 130}
LongBoundary(k) ==
    100 + Cardinality({j \in LongUpSteps : j < k})
        - Cardinality({j \in LongDownSteps : j < k})
LongExtremes(k, b) ==
    CASE k = 96 -> <<b, b + 10>>
      [] k = 104 -> <<b, b + 15>>
      [] k = 120 -> <<b, b + 15>>
      [] k = 128 -> <<b, b + 20>>
      [] k = 132 -> <<b, b + 5>>
      [] k = 148 -> <<b - 10, b>>
      [] OTHER -> <<b, b>>
LongBars(latest) ==
    LET t == IF latest.timestamp % 5 = 0 THEN latest.timestamp + 1
             ELSE latest.timestamp + 4
        k == t \div 5
        e == LongExtremes(k, latest.close)
    IN  IF t % 5 = 0
        THEN { [timestamp |-> t, open |-> LongBoundary(k), high |-> LongBoundary(k),
                low |-> LongBoundary(k), close |-> LongBoundary(k), volume |-> 10] }
        ELSE { [timestamp |-> t, open |-> latest.close, high |-> e[2],
                low |-> e[1], close |-> latest.close, volume |-> 10] }

\* The scripted market "early": the market "down" 60 candles earlier (flat up
\* to candle 26, the extremes inside candles 36, 40, 44 and 50).
EarlyBars(latest) ==
    LET t == IF latest.timestamp % 5 = 0 THEN latest.timestamp + 1
             ELSE latest.timestamp + 4
        k == t \div 5 + 60
    IN  IF t % 5 = 0
        THEN { [timestamp |-> t, open |-> b, high |-> b, low |-> b, close |-> b,
                volume |-> 10] : b \in Boundaries(k) }
        ELSE { [timestamp |-> t, open |-> latest.close, high |-> e[2],
                low |-> e[1], close |-> latest.close, volume |-> 10] :
                  e \in Extremes(k, latest.close) }

Mirror(bar) ==
    [bar EXCEPT !.open = 200 - bar.open, !.high = 200 - bar.low,
                !.low = 200 - bar.high, !.close = 200 - bar.close]

Bars(f, latest) ==
    CASE f = "free" -> FreeBars(latest)
      [] f = "down" -> DownBars(latest)
      [] f = "up" -> { Mirror(b) : b \in DownBars(Mirror(latest)) }
      [] f = "long" -> LongBars(latest)
      [] f = "early" -> EarlyBars(latest)

\* How long the stream of a scripted market runs.
StreamOpen(f, cs) ==
    \/ f = "free"
    \/ f = "long" /\ Len(cs) < MaxLong
    \/ f = "early" /\ Len(cs) < MaxEarly
    \/ f \in {"down", "up"} /\ Len(cs) < MaxSeries

FirstBar(f) ==
    IF f = "up" THEN Mirror([timestamp |-> 0, open |-> 100, high |-> 100,
                             low |-> 100, close |-> 100, volume |-> 10])
    ELSE [timestamp |-> 0, open |-> 100, high |-> 100, low |-> 100,
          close |-> 100, volume |-> 10]

\* The collector after one more bar of a scripted market, where it has no
\* alternative.
Feed(f, st) ==
    ProcessMinuteBar(st, CHOOSE b \in Bars(f, st.latest_bar_data) : TRUE)

RECURSIVE FeedTimes(_, _, _)
\* ... and after n more bars (n is halved as the EMA's range is)
FeedTimes(f, st, n) ==
    IF n = 0 THEN st
    ELSE IF n = 1 THEN Feed(f, st)
    ELSE LET half == FeedTimes(f, st, n \div 2)
         IN  IF half = half THEN FeedTimes(f, half, n - n \div 2) ELSE st

\* The collector after the bars of minutes 0, 1, 5, 6, .., 5n of a scripted
\* market: n closed candles and the working one.
Warm(f, n) == FeedTimes(f, ProcessMinuteBar(EmptyCollector, FirstBar(f)), 2 * n)

----------------------------------------------------------------------------
(* Actions *)

\* LiveDataCollector.on_bar: latest_bar_data is set and process_minute_bar
\* folds it.
OnBar ==
    /\ StreamOpen(feed, candles)
    \* a minute passes between two bars, the sleep takes 2 seconds
    /\ current_candle = NoCandle \/ stream_pc = "connected"
    /\ \E bar \in Bars(feed, latest_bar_data) :
        LET after == ProcessMinuteBar(CollectorState, bar)
        IN  /\ latest_bar_data' = after.latest_bar_data
            /\ current_candle' = after.current_candle
            /\ candle_start' = after.candle_start
            /\ candles' = after.candles
            /\ folded' = after.folded
            /\ runs' = IF after.candles # candles THEN 0 ELSE runs
    /\ UNCHANGED <<feed, stream_pc, trading_enabled, detector, trader, call>>

\* start_collection after its "await asyncio.sleep(2)": candle_start is set to
\* the clock, be it after on_bar has set it to the first bar's timestamp.  The
\* bar of minute t arrives when the minute is over; the clock is taken a
\* little later, and rounded up to the whole minute here (candle_start is
\* only ever compared to whole minutes).
Now == latest_bar_data.timestamp + 2
StartCollection ==
    /\ stream_pc = "connecting"
    /\ stream_pc' = "connected"
    /\ candle_start' = Now
    /\ UNCHANGED <<feed, latest_bar_data, current_candle, candles, folded,
                   trading_enabled, detector, trader, runs, call>>

\* "new_candle = self.data_collector.update()": update is a coroutine function
\* and the call is not awaited, so new_candle is a coroutine object, which is
\* true.
new_candle == TRUE

\* on_new_candle up to the detect_signal call: get_dataframe, the length test,
\* the indicator columns, detect_signal.
on_new_candle(cs, pivots, last) ==
    IF cs = <<>> \/ Len(cs) < MinSeriesLen
    THEN [recent_pivots |-> pivots, last_signal_time |-> last, signal |-> NoSignal]
    ELSE detect_signal(cs, pivots, last)

\* How often the model lets the loop poll one candidate pivot: each poll
\* appends it to the window again.
Copies(pivots, index) ==
    Cardinality({k \in 1..Len(pivots) : pivots[k].index = index})

\* The environment's answers while a signal is handled: get_account raises,
\* or the account has no equity, or it has 1000 dollars; then the
\* notification, if the notifier is ready, and submit_order, if it is called.
Envs(log_only, notifier) ==
    { [NoEnv EXCEPT !.account = acc] :
        acc \in { [ok |-> FALSE, equity |-> 0], [ok |-> TRUE, equity |-> 0] } }
    \cup
    { [account |-> [ok |-> TRUE, equity |-> 1000], send |-> snd, submit |-> sub] :
        snd \in IF notifier = "ready" THEN {"sent", "failed"} ELSE {"sent"},
        sub \in IF log_only THEN {FALSE} ELSE BOOLEAN }

\* One iteration of the "while self.running" loop of IntegratedLiveTrader.run.
RunLoop ==
    /\ stream_pc = "connected"
    /\ Copies(recent_pivots, Len(candles) - PIVOT_LOOKBACK - 1) < MaxDup
    /\ runs < MaxDup
    /\ LET enables == ~trading_enabled /\ Len(candles) >= MIN_CANDLES_REQUIRED
           enabled == trading_enabled \/ enables
           \* "self.signal_detector = SignalDetector(self.config)"
           pivots == IF enables THEN <<>> ELSE recent_pivots
           last == IF enables THEN NoneTime ELSE last_signal_time
           after == IF enabled /\ new_candle
                    THEN on_new_candle(candles, pivots, last)
                    ELSE [recent_pivots |-> pivots, last_signal_time |-> last,
                          signal |-> NoSignal]
       IN  /\ trading_enabled' = enabled
           /\ runs' = IF enabled /\ new_candle THEN runs + 1 ELSE runs
           /\ recent_pivots' = after.recent_pivots
           /\ last_signal_time' = after.last_signal_time
           /\ signal' = after.signal
           /\ \E env \in IF signal' = NoSignal THEN {NoEnv}
                          ELSE Envs(log_signals_only, discord) :
                LET done == OnSignal(signal', candles[Len(candles)].close,
                                     open_position, orders, log_signals_only,
                                     discord, env)
                IN  /\ open_position' = done.open_position
                    /\ orders' = done.orders
                    /\ handled' = done.handled
    /\ UNCHANGED <<feed, stream_pc, collector, log_signals_only, discord, call>>

Next == StartCollection \/ OnBar \/ RunLoop

\* After construction: nothing collected, trading not enabled.
Init ==
    /\ feed = "free"
    /\ stream_pc = "connecting"
    /\ latest_bar_data = NoBar
    /\ current_candle = NoCandle
    /\ candle_start = 0
    /\ candles = <<>>
    /\ folded = <<>>
    /\ trading_enabled = FALSE
    /\ recent_pivots = <<>>
    /\ last_signal_time = NoneTime
    /\ signal = NoSignal
    /\ log_signals_only = TRUE
    /\ discord = "none"
    /\ open_position = NoPosition
    /\ orders = <<>>
    /\ handled = NotHandled
    /\ runs = 0
    /\ call = NoCall

Spec == Init /\ [][Next]_vars

\* The bot after 99 candles of a scripted market: detect_signal has returned
\* at its length test on every call so far, so the detector is as constructed.
InitDet ==
    /\ feed \in {"down", "up"}
    /\ stream_pc = "connected"
    /\ LET warm == Warm(feed, 99)
       IN  /\ latest_bar_data = warm.latest_bar_data
           /\ current_candle = warm.current_candle
           /\ candle_start = warm.candle_start
           /\ candles = warm.candles
           /\ folded = warm.folded
    /\ trading_enabled \in BOOLEAN
    /\ recent_pivots = <<>>
    /\ last_signal_time = NoneTime
    /\ signal = NoSignal
    /\ log_signals_only \in BOOLEAN
    /\ discord \in {"none", "ready"}
    /\ open_position = NoPosition
    /\ orders = <<>>
    /\ handled = NotHandled
    /\ runs = 0
    /\ call = NoCall

\* start_collection returned long before
NextDet == OnBar \/ RunLoop

SpecDet == InitDet /\ [][NextDet]_vars

\* The bot as configured (config.py) after 99 candles of the long market
InitLong ==
    /\ feed = "long"
    /\ stream_pc = "connected"
    /\ LET warm == Warm(feed, 99)
       IN  /\ latest_bar_data = warm.latest_bar_data
           /\ current_candle = warm.current_candle
           /\ candle_start = warm.candle_start
           /\ candles = warm.candles
           /\ folded = warm.folded
    /\ trading_enabled \in BOOLEAN
    /\ recent_pivots = <<>>
    /\ last_signal_time = NoneTime
    /\ signal = NoSignal
    /\ log_signals_only = TRUE
    /\ discord \in {"none", "ready"}
    /\ open_position = NoPosition
    /\ orders = <<>>
    /\ handled = NotHandled
    /\ runs = 0
    /\ call = NoCall

SpecLong == InitLong /\ [][NextDet]_vars

\* The bot as configured (config.py) after 29 candles of the early market:
\* trading is not enabled yet
InitEarly ==
    /\ feed = "early"
    /\ stream_pc = "connected"
    /\ LET warm == Warm(feed, 29)
       IN  /\ latest_bar_data = warm.latest_bar_data
           /\ current_candle = warm.current_candle
           /\ candle_start = warm.candle_start
           /\ candles = warm.candles
           /\ folded = warm.folded
    /\ trading_enabled = FALSE
    /\ recent_pivots = <<>>
    /\ last_signal_time = NoneTime
    /\ signal = NoSignal
    /\ log_signals_only = TRUE
    /\ discord \in {"none", "ready"}
    /\ open_position = NoPosition
    /\ orders = <<>>
    /\ handled = NotHandled
    /\ runs = 0
    /\ call = NoCall

SpecEarly == InitEarly /\ [][NextDet]_vars

----------------------------------------------------------------------------
(* The program's functions called directly, on arguments of one's choice *)

\* The series find_pivot_high / find_pivot_low are called on: up to MaxFnLen
\* candles of a few (high, low) shapes.
FnShapes ==
    { [high |-> 2, low |-> 1], [high |-> 3, low |-> 1], [high |-> 3, low |-> 2] }
RECURSIVE FnSeries(_)
FnSeries(n) ==
    IF n = 0 THEN { <<>> }
    ELSE FnSeries(n - 1) \cup
         { Append(cs, sh) : cs \in { x \in FnSeries(n - 1) : Len(x) = n - 1 },
                            sh \in FnShapes }

PivotCalls ==
    { [fn |-> "find_pivot", done |-> FALSE, series |-> cs, index |-> i,
       lookback |-> lb, high |-> FALSE, low |-> FALSE] :
         cs \in FnSeries(MaxFnLen), i \in (-1)..MaxFnLen, lb \in 1..MaxFnLookback }

\* The rows calculate_confidence is called on: an RSI of each band and the
\* undefined ones, EMAs around a close of 100, an ATR column negative, zero
\* or positive (in sums of ATR_PERIOD true ranges), defined or not.
FnRsis ==
    { [gain |-> 0, loss |-> 0], [gain |-> 3, loss |-> 0], [gain |-> 0, loss |-> 3],
      [gain |-> 1, loss |-> 4], [gain |-> 2, loss |-> 5], [gain |-> 1, loss |-> 2],
      [gain |-> 1, loss |-> 1], [gain |-> 2, loss |-> 1], [gain |-> 5, loss |-> 2],
      [gain |-> 4, loss |-> 1] }
FnRows ==
    { [rsi |-> r, close |-> 100, ema20 |-> e20 * EmaScale,
       ema50 |-> e50 * EmaScale, ema100 |-> e100 * EmaScale,
       atr_defined |-> ad, atr |-> a * ATR_PERIOD] :
         r \in FnRsis, e20 \in {95, 97, 100, 102}, e50 \in {96, 100, 101},
         e100 \in {94, 100, 103}, ad \in BOOLEAN, a \in {-1, 0, 1, 2, 3} }
ConfidenceCalls ==
    { [fn |-> "calculate_confidence", done |-> FALSE, row |-> row,
       is_bullish |-> b, confidence |-> 0] : row \in FnRows, b \in BOOLEAN }

\* What get_account answers: an error, or an account of some equity (dollars)
FnAccounts ==
    { [ok |-> FALSE, equity |-> 0] } \cup
    { [ok |-> TRUE, equity |-> e] : e \in {0, 11, 12, 40, 10000} }

\* The signals and prices calculate_order_details is called on: an ATR of 0,
\* 2 and 50 (in sums of ATR_PERIOD true ranges), a price of 100 and 30000.
OrderCalls ==
    { [fn |-> "calculate_order_details", done |-> FALSE,
       signal |-> [NoSignal EXCEPT !.type = t, !.atr = a * ATR_PERIOD,
                                   !.price = p, !.confidence = MIN_CONFIDENCE],
       current_price |-> p, account |-> acc, order_details |-> NoPlan] :
         t \in {"BULLISH", "BEARISH"}, a \in {0, 2, 50}, p \in {100, 30000},
         acc \in FnAccounts }

\* calculate_order_details(signal, current_price) on the arguments drawn
CallOrderDetails ==
    /\ call.fn = "calculate_order_details" /\ ~call.done
    /\ call' = [call EXCEPT
                  !.done = TRUE,
                  !.order_details = calculate_order_details(
                                        call.signal, call.current_price, call.account)]
    /\ UNCHANGED <<feed, stream_pc, collector, trading_enabled, detector, trader, runs>>

\* calculate_confidence(df, index, is_bullish) on the row drawn
CallConfidence ==
    /\ call.fn = "calculate_confidence" /\ ~call.done
    /\ call' = [call EXCEPT
                  !.done = TRUE,
                  !.confidence = calculate_confidence(call.row, call.is_bullish)]
    /\ UNCHANGED <<feed, stream_pc, collector, trading_enabled, detector, trader, runs>>

\* find_pivot_high(highs, index, lookback) and find_pivot_low(lows, index,
\* lookback) on the arguments drawn
CallPivot ==
    /\ call.fn = "find_pivot" /\ ~call.done
    /\ call' = [call EXCEPT
                  !.done = TRUE,
                  !.high = find_pivot_high(call.series, call.index, call.lookback),
                  !.low = find_pivot_low(call.series, call.index, call.lookback)]
    /\ UNCHANGED <<feed, stream_pc, collector, trading_enabled, detector, trader, runs>>

NextFn == CallPivot \/ CallConfidence \/ CallOrderDetails

InitFn ==
    /\ feed = "free"
    /\ stream_pc = "connecting"
    /\ latest_bar_data = NoBar
    /\ current_candle = NoCandle
    /\ candle_start = 0
    /\ candles = <<>>
    /\ folded = <<>>
    /\ trading_enabled = FALSE
    /\ recent_pivots = <<>>
    /\ last_signal_time = NoneTime
    /\ signal = NoSignal
    /\ log_signals_only = TRUE
    /\ discord = "none"
    /\ open_position = NoPosition
    /\ orders = <<>>
    /\ handled = NotHandled
    /\ runs = 0
    /\ call \in PivotCalls \cup ConfidenceCalls \cup OrderCalls

SpecFn == InitFn /\ [][NextFn]_vars

----------------------------------------------------------------------------
(* Properties of the collector *)

\* the bar on_bar has just stored
tick == latest_bar_data'
\* a candle was appended in this step, and which
Closed == Len(candles') = Len(candles) + 1
Appended == candles'[Len(candles')]

RECURSIVE MaxHigh(_, _)
\* over the first n of a sequence of bars
MaxHigh(ticks, n) ==
    IF n = 1 THEN ticks[1].high ELSE Max(ticks[n].high, MaxHigh(ticks, n - 1))
RECURSIVE MinLow(_, _)
MinLow(ticks, n) ==
    IF n = 1 THEN ticks[1].low ELSE Min(ticks[n].low, MinLow(ticks, n - 1))
RECURSIVE SumVolume(_, _)
SumVolume(ticks, n) ==
    IF n = 0 THEN 0 ELSE ticks[n].volume + SumVolume(ticks, n - 1)

\* v is x rounded to 6 decimals: a multiple of 1e-6 nearest to x, the even one
\* of the two when x lies half way
IsRounded6(v, x) ==
    /\ v % 10 = 0
    /\ Abs(v - x) <= 5
    /\ Abs(v - x) = 5 => (v \div 10) % 2 = 0

C2_ClosedCandle ==
    [][OnBar /\ Closed =>
        LET ticks == Append(folded, tick)
            n == Len(ticks)
        IN  /\ Appended.open = ticks[1].open
            /\ Appended.high = MaxHigh(ticks, n)
            /\ Appended.low = MinLow(ticks, n)
            /\ Appended.close = ticks[n].close
            /\ IsRounded6(Appended.volume, SumVolume(ticks, n))]_vars

\* C2 as claimed: ... and as volume the sum of the bars' volumes.
C2_Claimed ==
    [][OnBar /\ Closed =>
        LET ticks == Append(folded, tick)
            n == Len(ticks)
        IN  /\ Appended.open = ticks[1].open
            /\ Appended.high = MaxHigh(ticks, n)
            /\ Appended.low = MinLow(ticks, n)
            /\ Appended.close = ticks[n].close
            /\ Appended.volume = SumVolume(ticks, n)]_vars

\* A candle closed from two different bars, 0.0000004 + 0.0000011 of volume
\* saved as 0.000002.
C2_Witness ==
    /\ Len(candles) >= 1
    /\ candles[1].open = 2 /\ candles[1].high = 4
    /\ candles[1].low = 1 /\ candles[1].close = 4
    /\ candles[1].volume = 20

\* C3: a step appends at most one candle to the series and leaves every
\* candle already in it where and as it was, whether the step is a bar or a
\* pass of the run loop with its indicators and detection.
C3_AppendOnly ==
    [][/\ Len(candles') \in {Len(candles), Len(candles) + 1}
       /\ SubSeq(candles', 1, Len(candles)) = candles]_vars

\* Candles were appended after a detection pass had recorded a pivot.
C3_Witness ==
    /\ Len(candles) > MinSeriesLen + PIVOT_LOOKBACK + 1
    /\ recent_pivots # <<>>
    /\ recent_pivots[1].index < Len(candles) - PIVOT_LOOKBACK - 1

\* C4: the bar that closes a candle appends it, with the start of its period
\* as timestamp, and in the same step starts the new working candle with its
\* own open, high, low, close and volume, count 1, and its timestamp as start.
C4_SeededFromTrigger ==
    [][OnBar /\ candle_start' # candle_start /\ current_candle # NoCandle =>
        /\ Closed
        /\ Appended.timestamp = candle_start
        /\ current_candle' =
             [timestamp |-> tick.timestamp, open |-> tick.open,
              high |-> tick.high, low |-> tick.low, close |-> tick.close,
              volume |-> tick.volume, bars_in_candle |-> 1]
        /\ candle_start' = tick.timestamp]_vars

\* Right after a closure: the working candle is the triggering bar alone.
C4_Witness ==
    /\ Len(candles) >= 1
    /\ Len(folded) = 1
    /\ candle_start = latest_bar_data.timestamp
    /\ current_candle.high > current_candle.close

\* C5 as amended: the first bar seeds the working candle with its own open,
\* high, low and close, its volume, count 1 and its timestamp as start.
C5_FirstBar ==
    [][OnBar /\ current_candle = NoCandle =>
        /\ current_candle' =
             [timestamp |-> tick.timestamp, open |-> tick.open,
              high |-> tick.high, low |-> tick.low, close |-> tick.close,
              volume |-> tick.volume, bars_in_candle |-> 1]
        /\ candle_start' = tick.timestamp
        /\ candles' = <<>>]_vars

\* C5 as claimed: the first bar seeds open = high = low = close = its close.
C5_Claimed ==
    [][OnBar /\ current_candle = NoCandle =>
        /\ current_candle' =
             [timestamp |-> tick.timestamp, open |-> tick.close,
              high |-> tick.close, low |-> tick.close, close |-> tick.close,
              volume |-> tick.volume, bars_in_candle |-> 1]
        /\ candle_start' = tick.timestamp]_vars

\* After the first bar, one whose open, high and low differ from its close.
C5_Witness ==
    /\ candles = <<>>
    /\ Len(folded) = 1
    /\ current_candle.bars_in_candle = 1
    /\ current_candle.open # current_candle.close
    /\ current_candle.high # current_candle.low

----------------------------------------------------------------------------
(* Properties of the detector *)

\* the index detect_signal examines on the series as it is
Candidate == Len(candles) - PIVOT_LOOKBACK - 1

\* this pass of the loop recorded a pivot: the window after it, the pivot, and
\* the places in the window of the pivots before it
Recorded == RunLoop /\ recent_pivots' # recent_pivots
Window == recent_pivots'
Newest == Window[Len(Window)]
Priors == 1..(Len(Window) - 1)

\* of the same type as the pivot and at least 8 bars before it
Eligible(w, pivot, k) ==
    /\ w[k].type = pivot.type
    /\ pivot.index - w[k].index >= MinBarsBetween

\* the price/RSI pattern of a pivot against an earlier one
Diverges(pivot, prev) ==
    \/ /\ pivot.type = "low"
       /\ pivot.price < prev.price
       /\ RsiGreater(pivot.rsi, prev.rsi)
       /\ RsiBelow(pivot.rsi, 40)
    \/ /\ pivot.type = "high"
       /\ pivot.price > prev.price
       /\ RsiGreater(prev.rsi, pivot.rsi)
       /\ RsiAbove(pivot.rsi, 60)

\* the last place of a non-empty set of places: the nearest pivot
Nearest(S) == CHOOSE k \in S : \A j \in S : j <= k

C7_Claimed ==
    [][RunLoop /\ signal' # NoSignal /\ last_signal_time # NoneTime =>
        last_signal_time' - last_signal_time >= signal_cooldown_bars]_vars

\* C8 as amended: the pattern is tried on the eligible prior pivots from the
\* nearest to the oldest; the Signal returned is for the nearest one the
\* candidate diverges from, when the confidence reaches the minimum, and no
\* signal is returned only when there is none or the confidence is below it.
C8_FirstMatch ==
    [][Recorded =>
        LET M == {k \in Priors : /\ Eligible(Window, Newest, k)
                                 /\ Diverges(Newest, Window[k])}
            confidence == calculate_confidence(Row(candles, Newest.index),
                                               Newest.type = "low")
        IN  IF M # {} /\ confidence >= MIN_CONFIDENCE
            THEN /\ signal' # NoSignal
                 /\ signal'.bars_between = Newest.index - Window[Nearest(M)].index
            ELSE signal' = NoSignal]_vars

\* C8 as claimed: only the nearest eligible prior pivot is tried; when the
\* candidate does not diverge from it no signal is returned.
C8_Claimed ==
    [][Recorded =>
        LET E == {k \in Priors : Eligible(Window, Newest, k)}
        IN  /\ E = {} => signal' = NoSignal
            /\ E # {} /\ ~Diverges(Newest, Window[Nearest(E)]) =>
                 signal' = NoSignal
            /\ E # {} /\ signal' # NoSignal =>
                 signal'.bars_between = Newest.index - Window[Nearest(E)].index]_vars

\* A Signal for a pivot further back than the nearest eligible one.
C8_Witness ==
    /\ signal # NoSignal
    /\ LET n == Len(recent_pivots)
           pivot == recent_pivots[n]
       IN  /\ pivot.index = last_signal_time
           /\ \E k \in 1..(n - 1) :
                /\ Eligible(recent_pivots, pivot, k)
                /\ recent_pivots[k].index > pivot.index - signal.bars_between

\* C9: the Signal last returned is for a candidate that is a pivot of the
\* Signal's kind (low for BULLISH, high for BEARISH) and diverges from a pivot
\* of the same type in the window at least 8 bars before it, and its
\* confidence is at least MIN_CONFIDENCE.
C9_SignalSound ==
    signal # NoSignal =>
        LET n == Len(recent_pivots)
            pivot == recent_pivots[n]
        IN  /\ pivot.index = last_signal_time
            /\ signal.price = pivot.price /\ signal.rsi = pivot.rsi
            /\ signal.type = "BULLISH" =>
                 /\ pivot.type = "low"
                 /\ find_pivot_low(candles, pivot.index, PIVOT_LOOKBACK)
                 /\ pivot.price = At(candles, pivot.index).low
            /\ signal.type = "BEARISH" =>
                 /\ pivot.type = "high"
                 /\ find_pivot_high(candles, pivot.index, PIVOT_LOOKBACK)
                 /\ pivot.price = At(candles, pivot.index).high
            /\ signal.type \in {"BULLISH", "BEARISH"}
            /\ \E k \in 1..(n - 1) :
                 /\ recent_pivots[k].type = pivot.type
                 /\ pivot.index - recent_pivots[k].index = signal.bars_between
                 /\ signal.bars_between >= MinBarsBetween
                 /\ pivot.index - recent_pivots[k].index <= MAX_LOOKBACK_BARS
                 /\ Diverges(pivot, recent_pivots[k])
            /\ signal.confidence >= MIN_CONFIDENCE

\* A BEARISH Signal of the rising market.
C9_Witness ==
    /\ signal.type = "BEARISH"
    /\ signal.confidence < 1000
    /\ RsiAbove(signal.rsi, 60)

\* C10: outside cooldown, for a candidate that is a pivot low with an RSI
\* below 40 and an earlier pivot low in the window, at least 8 bars before it,
\* of higher price and lower RSI, the call returns a BULLISH Signal exactly
\* when the confidence at the candidate is at least MIN_CONFIDENCE.
C10_Claimed ==
    [][/\ RunLoop
       /\ \/ last_signal_time = NoneTime
          \/ (Len(candles) - 1) - last_signal_time >= signal_cooldown_bars
       /\ Candidate >= PIVOT_LOOKBACK
       /\ find_pivot_low(candles, Candidate, PIVOT_LOOKBACK)
       /\ RsiBelow(calculate_rsi(candles, Candidate, RSI_PERIOD), 40)
       /\ \E k \in 1..Len(recent_pivots) :
            /\ recent_pivots[k].type = "low"
            /\ Candidate - recent_pivots[k].index >= MinBarsBetween
            /\ Candidate - recent_pivots[k].index <= MAX_LOOKBACK_BARS
            /\ recent_pivots[k].price > At(candles, Candidate).low
            /\ RsiGreater(calculate_rsi(candles, Candidate, RSI_PERIOD),
                          recent_pivots[k].rsi)
       => (signal'.type = "BULLISH" <=>
             calculate_confidence(Row(candles, Candidate), TRUE)
               >= MIN_CONFIDENCE)]_vars

----------------------------------------------------------------------------
(* Properties of the pivot functions *)

\* C11: on the series collected, for the configured lookback and those near
\* it, no index within lookback of either end is a pivot high or a pivot low,
\* and every pivot recorded has PIVOT_LOOKBACK closed candles before it and
\* PIVOT_LOOKBACK after it.
C11_NoPivotAtEdges ==
    /\ \A lb \in 1..(PIVOT_LOOKBACK + 1) :
         \A i \in ((-1)..(lb - 1)) \cup ((Len(candles) - lb)..Len(candles)) :
            /\ ~find_pivot_high(candles, i, lb)
            /\ ~find_pivot_low(candles, i, lb)
    /\ \A k \in 1..Len(recent_pivots) :
         /\ recent_pivots[k].index >= PIVOT_LOOKBACK
         /\ recent_pivots[k].index + PIVOT_LOOKBACK <= Len(candles) - 1

\* A pivot was just recorded, and the newest candle is higher than the two
\* before it.
C11_Witness ==
    /\ recent_pivots # <<>>
    /\ recent_pivots[Len(recent_pivots)].index = Candidate
    /\ \A i \in (Len(candles) - 3)..(Len(candles) - 2) :
         At(candles, i).high < At(candles, Len(candles) - 1).high

\* C12: called on an index with a full window, find_pivot_high is true exactly
\* when every other high of the window is strictly below the index's, and
\* find_pivot_low exactly when every other low is strictly above.
C12_StrictPivots ==
    /\ call.fn = "find_pivot" /\ call.done
    /\ call.index >= call.lookback
    /\ call.index < Len(call.series) - call.lookback
    => LET i == call.index
           others == ((i - call.lookback)..(i + call.lookback)) \ {i}
       IN  /\ call.high <=>
                \A j \in others : call.series[j + 1].high < call.series[i + 1].high
           /\ call.low <=>
                \A j \in others : call.series[j + 1].low > call.series[i + 1].low

\* A call on a full window that only a tie kept from being a pivot high.
C12_Witness ==
    /\ call.fn = "find_pivot" /\ call.done
    /\ call.index >= call.lookback
    /\ call.index < Len(call.series) - call.lookback
    /\ ~call.high
    /\ \A j \in (call.index - call.lookback)..(call.index + call.lookback) :
         call.series[j + 1].high <= call.series[call.index + 1].high

----------------------------------------------------------------------------
(* Properties of calculate_confidence *)

\* C13: the confidence returned is between 0 and 1 (0 and 1000 thousandths),
\* whatever the row and the direction.
C13_ConfidenceRange ==
    call.fn = "calculate_confidence" /\ call.done =>
        call.confidence >= 0 /\ call.confidence <= 1000

\* The highest score there is: 0.25 + 0.3 * 0.6 + 0.25 + 0.1 + 0.1.
C13_Witness ==
    /\ call.fn = "calculate_confidence" /\ call.done
    /\ call.confidence = 880

\* C14: the confidence returned is 0 when the row's ATR is 0, or its RSI or
\* its ATR is undefined.
C14_ZeroOnDegenerate ==
    /\ call.fn = "calculate_confidence" /\ call.done
    /\ \/ call.row.atr = 0
       \/ ~call.row.atr_defined
       \/ call.row.rsi.loss = 0
    => call.confidence = 0

\* A call on a row whose RSI and ATR are defined and whose ATR is 0.
C14_Witness ==
    /\ call.fn = "calculate_confidence" /\ call.done
    /\ call.row.atr = 0 /\ call.row.atr_defined
    /\ call.row.rsi.loss > 0 /\ call.row.rsi.gain > 0
    /\ call.confidence = 0

----------------------------------------------------------------------------
(* Properties of calculate_order_details *)

\* the plan a direct call has returned
Planned ==
    call.fn = "calculate_order_details" /\ call.done /\ call.order_details # NoPlan

\* C16: in every plan returned, stop_distance is ATR x stop_multiplier and
\* the quantity is (equity x risk_fraction / stop_distance) / entry rounded to
\* 6 decimals (not further than half a millionth from it); equity 10000, ATR
\* 50 and entry 30000 give a stop_distance of 75 and a quantity of 0.000444.
C16_Sizing ==
    Planned =>
        LET plan == call.order_details
            exact == QtyExact(call.account.equity, plan.stop_distance,
                              call.current_price)
        IN  /\ plan.stop_distance * ATR_PERIOD * 10
                 = call.signal.atr * STOP_MULTIPLIER * PriceScale
            /\ 2 * Abs(plan.qty * exact.den - exact.num * QtyUnits) <= exact.den
            /\ (/\ call.account.equity = 10000
                /\ call.signal.atr = 50 * ATR_PERIOD
                /\ call.current_price = 30000)
               => plan.stop_distance = 75 * PriceScale /\ plan.qty = 444

\* The plan of the example
C16_Witness ==
    /\ Planned
    /\ call.account.equity = 10000
    /\ call.signal.atr = 50 * ATR_PERIOD
    /\ call.current_price = 30000
    /\ call.order_details.qty = 444

\* C17: a plan from a BULLISH signal buys, with stop = entry - stop_distance,
\* target_i = entry + stop_distance x R_i and
\* stop < entry < target_1 < target_2 < target_3; a plan from a BEARISH signal
\* sells and mirrors them.
C17_Levels ==
    Planned =>
        LET plan == call.order_details
            sd == plan.stop_distance
        IN  IF call.signal.type = "BULLISH"
            THEN /\ plan.side = "BUY"
                 /\ plan.stop = plan.entry - sd
                 /\ 10 * plan.target_1 = 10 * plan.entry + sd * TARGET_1_RR
                 /\ 10 * plan.target_2 = 10 * plan.entry + sd * TARGET_2_RR
                 /\ 10 * plan.target_3 = 10 * plan.entry + sd * TARGET_3_RR
                 /\ plan.stop < plan.entry /\ plan.entry < plan.target_1
                 /\ plan.target_1 < plan.target_2 /\ plan.target_2 < plan.target_3
            ELSE /\ plan.side = "SELL"
                 /\ plan.stop = plan.entry + sd
                 /\ 10 * plan.target_1 = 10 * plan.entry - sd * TARGET_1_RR
                 /\ 10 * plan.target_2 = 10 * plan.entry - sd * TARGET_2_RR
                 /\ 10 * plan.target_3 = 10 * plan.entry - sd * TARGET_3_RR
                 /\ plan.target_3 < plan.target_2 /\ plan.target_2 < plan.target_1
                 /\ plan.target_1 < plan.entry /\ plan.entry < plan.stop

\* A plan to sell
C17_Witness ==
    /\ Planned
    /\ call.signal.type = "BEARISH"
    /\ call.order_details.side = "SELL"
    /\ call.order_details.target_3 < call.order_details.entry

----------------------------------------------------------------------------
(* Properties of on_new_candle *)

\* C15: a plan is only returned with a stop distance above 0 and a quantity
\* above 0; when a signal gets no plan, on_new_candle neither notifies nor
\* trades: no notification is attempted, execute_trade is not called, the
\* orders and the position stay as they are.
C15_PlanOrNothing ==
    [][/\ handled'.order_details # NoPlan =>
            /\ handled'.order_details.stop_distance > 0
            /\ handled'.order_details.qty > 0
       /\ (/\ UNCHANGED collector
           /\ signal' # NoSignal
           /\ handled'.order_details = NoPlan)
          => /\ handled'.notification = "none"
             /\ handled'.trade = "none"
             /\ orders' = orders
             /\ open_position' = open_position]_vars

\* A signal discarded for a quantity of 0 (an account without equity), in a
\* bot that notifies and trades
C15_Witness ==
    /\ signal # NoSignal
    /\ handled.order_details = NoPlan
    /\ handled.env.account.ok
    /\ discord = "ready" /\ ~log_signals_only

\* C20: when the notification of a signal fails, the detector is as
\* detect_signal left it, the position, the orders and the trade are what
\* they are when the notification is sent, and with LOG_SIGNALS_ONLY false
\* execute_trade runs: without a position, the order is submitted.
C20_NotificationFailure ==
    [][(UNCHANGED collector /\ handled'.notification = "failed") =>
          LET quiet == OnSignal(signal', candles[Len(candles)].close,
                                open_position, orders, log_signals_only, discord,
                                [handled'.env EXCEPT !.send = "sent"])
          IN  /\ last_signal_time' = Len(candles) - PIVOT_LOOKBACK - 1
              /\ recent_pivots' # <<>>
              /\ recent_pivots'[Len(recent_pivots')].index
                     = Len(candles) - PIVOT_LOOKBACK - 1
              /\ open_position' = quiet.open_position
              /\ orders' = quiet.orders
              /\ handled'.trade = quiet.handled.trade
              /\ handled'.order_details = quiet.handled.order_details
              /\ ~log_signals_only => handled'.trade # "none"
              /\ (~log_signals_only /\ open_position = NoPosition
                   /\ handled'.env.submit)
                 => /\ Len(orders') = Len(orders) + 1
                    /\ orders'[Len(orders')].qty = handled'.order_details.qty
                    /\ open_position' # NoPosition]_vars

\* An order submitted after the notification has failed
C20_Witness ==
    /\ handled.notification = "failed"
    /\ handled.trade = "submitted"
    /\ orders # <<>>
    /\ open_position # NoPosition

----------------------------------------------------------------------------
(* Properties of the pivot window *)

\* C18: every pivot of the window is at most MAX_LOOKBACK_BARS before the
\* newest one, and the window is in non-decreasing order of index, the
\* newest pivot last.
C18_WindowRecent ==
    /\ \A k \in 1..Len(recent_pivots) :
         /\ recent_pivots[k].index <= recent_pivots[Len(recent_pivots)].index
         /\ recent_pivots[Len(recent_pivots)].index - recent_pivots[k].index
               <= MAX_LOOKBACK_BARS
    /\ \A k \in 1..(Len(recent_pivots) - 1) :
         recent_pivots[k].index <= recent_pivots[k + 1].index

\* The window after the pivot at candle 148 has been recorded: the pivot at
\* candle 96 is gone, the one at candle 104 is still there.
C18_Witness ==
    /\ recent_pivots # <<>>
    /\ recent_pivots[Len(recent_pivots)].index = 148
    /\ \E k \in 1..Len(recent_pivots) : recent_pivots[k].index = 104
    /\ find_pivot_high(candles, 96, PIVOT_LOOKBACK)
    /\ \A k \in 1..Len(recent_pivots) : recent_pivots[k].index # 96

----------------------------------------------------------------------------
(* Properties of the main loop *)

\* C21 as claimed: detect_signal runs exactly once for each closed candle: not
\* a second time on the series as it is, and a candle is not closed before
\* detect_signal has run on the series before it.
C21_Claimed ==
    [][/\ Len(candles') >= MinSeriesLen => runs' <= 1
       /\ (/\ candles' # candles
           /\ trading_enabled
           /\ Len(candles) >= MinSeriesLen)
          => runs >= 1]_vars

----------------------------------------------------------------------------
(* Properties of the last-signal marker *)

\* C22: a call that returns no signal leaves the last-signal marker as it is,
\* and the pivot it has recorded is the newest of the window; a call that
\* returns a Signal sets the marker to its candidate index; the pivots of the
\* window stay until they are more than MAX_LOOKBACK_BARS behind a recorded
\* candidate.
C22_MarkerFrame ==
    [][RunLoop =>
         /\ signal' = NoSignal => last_signal_time' = last_signal_time
         /\ signal' # NoSignal => last_signal_time' = Candidate
         /\ (signal' = NoSignal /\ recent_pivots' # recent_pivots)
            => recent_pivots'[Len(recent_pivots')].index = Candidate
         /\ trading_enabled =>
              \A k \in 1..Len(recent_pivots) :
                 Candidate - recent_pivots[k].index <= MAX_LOOKBACK_BARS
                 => \E j \in 1..Len(recent_pivots') :
                        recent_pivots'[j] = recent_pivots[k]]_vars

\* The pivot of candle 148 recorded without a signal, the marker still at the
\* signal of candle 128
C22_Witness ==
    /\ signal = NoSignal
    /\ recent_pivots # <<>>
    /\ recent_pivots[Len(recent_pivots)].index = Candidate
    /\ last_signal_time # NoneTime
    /\ last_signal_time < Candidate - signal_cooldown_bars

----------------------------------------------------------------------------
(* Properties of the plan's risk *)

\* C23 as claimed: the plan's risk_dollars is equity x risk_fraction up to the
\* rounding of the quantity: it is the risk of a quantity next to
\* (equity x risk_fraction) / stop_distance.
C23_Claimed ==
    Planned =>
        LET plan == call.order_details
            whole == QtyExact(call.account.equity, plan.stop_distance, 1)
            lo == Digits(whole.num \div whole.den, whole.num % whole.den,
                         whole.den, 6).quot
        IN  \E q \in {lo, lo + 1} :
               plan.risk_dollars = RiskDollars(q, plan.stop_distance)

----------------------------------------------------------------------------
(* Properties of the volume *)

\* the volume held by the collector: of the closed candles and the working one
HeldVolume(cs, cur) ==
    SumVolume(cs, Len(cs)) + (IF cur = NoCandle THEN 0 ELSE cur.volume)

\* C24 as claimed: each bar contributes to exactly one candle: a bar adds its
\* volume once to the volume of the closed candles and the working candle
\* together (up to the rounding of the candle it closes, half a millionth).
C24_Claimed ==
    [][OnBar =>
         Abs(HeldVolume(candles', current_candle')
               - (HeldVolume(candles, current_candle) + tick.volume)) <= 5]_vars

----------------------------------------------------------------------------
(* Properties of repeated calls *)

\* C25 as claimed: the pivot window never holds two pivots of the same series
\* index.
C25_Claimed ==
    \A j, k \in 1..Len(recent_pivots) :
       recent_pivots[j].index = recent_pivots[k].index => j = k

\* C26 as claimed: once detect_signal has run on the series, its candidate
\* index, if it is a pivot, is in the pivot window.
C26_Claimed ==
    (/\ trading_enabled
     /\ runs >= 1
     /\ Len(candles) >= MinSeriesLen
     /\ \/ find_pivot_high(candles, Candidate, PIVOT_LOOKBACK)
        \/ find_pivot_low(candles, Candidate, PIVOT_LOOKBACK))
    => \E k \in 1..Len(recent_pivots) : recent_pivots[k].index = Candidate

----------------------------------------------------------------------------
(* Properties of a candle that is a pivot high and a pivot low *)

\* candle i of the series is both: its high strictly above and its low
\* strictly below those of the PIVOT_LOOKBACK candles on either side
Dual(cs, i) ==
    /\ i >= PIVOT_LOOKBACK /\ i + PIVOT_LOOKBACK <= Len(cs) - 1
    /\ \A j \in (i - PIVOT_LOOKBACK)..(i + PIVOT_LOOKBACK) :
         j # i => /\ At(cs, j).high < At(cs, i).high
                  /\ At(cs, j).low > At(cs, i).low

\* C27: a call on a candidate that is both records one pivot, of type high
\* and with the candle's high as price, and returns no BULLISH Signal; no
\* pivot of the window is a pivot low of such a candle.
C27_DualPivot ==
    [][/\ (RunLoop /\ recent_pivots' # recent_pivots /\ Dual(candles, Candidate))
          => /\ recent_pivots'[Len(recent_pivots')].index = Candidate
             /\ recent_pivots'[Len(recent_pivots')].type = "high"
             /\ recent_pivots'[Len(recent_pivots')].price
                    = At(candles, Candidate).high
             /\ Copies(recent_pivots', Candidate)
                    = 1 + (IF trading_enabled
                           THEN Copies(recent_pivots, Candidate) ELSE 0)
             /\ signal'.type # "BULLISH"
       /\ \A k \in 1..Len(recent_pivots') :
            Dual(candles', recent_pivots'[k].index)
            => recent_pivots'[k].type = "high"]_vars

\* The outside candle 104 recorded as a pivot high, without a signal, though
\* its low is below the low of a pivot low 8 candles before it
C27_Witness ==
    /\ recent_pivots # <<>>
    /\ Dual(candles, Candidate)
    /\ recent_pivots[Len(recent_pivots)].index = Candidate
    /\ recent_pivots[Len(recent_pivots)].type = "high"
    /\ signal = NoSignal
    /\ \E k \in 1..Len(recent_pivots) :
         /\ recent_pivots[k].type = "low"
         /\ Candidate - recent_pivots[k].index >= MinBarsBetween
         /\ recent_pivots[k].price > At(candles, Candidate).low

----------------------------------------------------------------------------
(* Properties of the enabled bot *)

\* the candidate of the series is a pivot that diverges, with an accepted
\* confidence, from a pivot of the series 8 to MAX_LOOKBACK_BARS candles
\* before it
QualifyingDivergence(cs) ==
    LET c == Len(cs) - PIVOT_LOOKBACK - 1
        High(i) == find_pivot_high(cs, i, PIVOT_LOOKBACK)
        Low(i) == find_pivot_low(cs, i, PIVOT_LOOKBACK)
    IN  /\ c >= PIVOT_LOOKBACK
        /\ High(c) \/ Low(c)
        /\ \E j \in PIVOT_LOOKBACK..(c - MinBarsBetween) :
             /\ High(j) \/ Low(j)
             /\ c - j <= MAX_LOOKBACK_BARS
             /\ LoopBody(NewPivot(cs, j, High(j), Low(j)),
                         NewPivot(cs, c, High(c), Low(c)), Row(cs, c)) # NoSignal

\* C28 as claimed: once trading is enabled, a run of on_new_candle on a series
\* whose candidate completes a qualifying divergence yields a Signal, be the
\* series shorter than 100 candles.
C28_Claimed ==
    (/\ trading_enabled
     /\ runs >= 1
     /\ Len(candles) >= MIN_CANDLES_REQUIRED
     /\ QualifyingDivergence(candles))
    => signal # NoSignal

----------------------------------------------------------------------------
(* Properties of the orders *)

\* C29 as claimed: no order is submitted while DRY_RUN is true or
\* LOG_SIGNALS_ONLY is true.
C29_Claimed == (DRY_RUN \/ log_signals_only) => orders = <<>>

====
